---- MODULE Spec2Model ----
(***************************************************************************)
(* Device-to-cloud dispatch core of BEmran/iot-azure.                      *)
(*                                                                         *)
(* Two threaded programs share the design and are modelled together; the   *)
(* variable `variant` says which one runs:                                 *)
(*   "thread" : src/azure-iot-example_thread.py                            *)
(*   "simple" : src/azure-iot-thread-simple.py with src/my_azure.py and    *)
(*              src/network.py                                             *)
(* The remote session client (azure.iot.device), the network probe and the *)
(* relay are collaborators: their outcomes are nondeterministic choices.   *)
(***************************************************************************)
EXTENDS Naturals, Sequences, FiniteSets

(* ------------------------------ bounds -------------------------------- *)
\* ticks the discrete clock advances after start-up
MaxTicks == 2
\* collaborator faults (network loss, session drop, handshake or send failure)
MaxFaults == 2
\* commands the remote endpoint invokes
MaxCmds == 2
\* telemetry and heartbeat intervals, in clock ticks
TelemetryInterval == 1
HeartbeatInterval == 2
\* time.sleep(2) between running.clear() and client.disconnect()
GracePeriod == 2
\* max_retries of the single-threaded program's bounded start-up retries
MaxRetries == 3
\* passes of the single-threaded program's loop that are followed
MaxRounds == 3

\* time.time() at start-up: the epoch clock is far past any interval, so the
\* first comparison against last_time = 0 always succeeds
StartTime == HeartbeatInterval + TelemetryInterval

VARIABLES
    variant,            \* which program runs
    pc,                 \* position of every task
    running,            \* running_event / thread_running_event
    now,                \* time.time()
    netUp,              \* what the network probe would answer
    connected,          \* client.connected
    client_lock,        \* holder of client_lock / Client.lock, or "free"
    handshakes,         \* number of client.connect() calls made
    faults,             \* collaborator faults injected so far
    send_queue,         \* queue.Queue of outbound messages
    msg,                \* the message the Sender holds
    sendRes,            \* outcome of the Sender's last future.result()
    worker,             \* the executor's worker: "idle" or "running"
    last_time,          \* last_time of sensor_task and heartbeat_task
    SLAVE_READY_STATE,
    ERROR_STATE,
    LED_USED,
    RUNNING,            \* process-wide flag of the simple program
    slave_ip_address,   \* SLAVE_CONFIG["slave_ip_address"] set or not
    command_queue,      \* queue.Queue of inbound method requests
    cmd_request,        \* the request the dispatcher holds
    cmd_result,         \* (status, code) the routing produced
    threads,            \* spawned restart_slave_task / stop_task threads
    nextToken,          \* request ids handed out by the remote endpoint
    \* history of what the remote endpoint and the collaborators observed
    enqueued,           \* every message ever created and put
    delivered,          \* deliveries observed by the remote endpoint
    clean,              \* no network check, handshake or send has failed
    received,           \* requests the dispatcher consumed, in order
    responses,          \* responses handed to send_method_response
    handled,            \* tokens for which a handler was run
    cleared_at,         \* time at which main cleared the running flag, or 0
    disconnects,        \* number of client.disconnect() calls made
    send_at_clear,      \* history: the Sender was inside send_with_timeout
                        \* when main cleared the running flag
    \* the single-threaded program (src/azure-iot-example.py, lines 1-215)
    attempt,            \* attempts the running bounded retry has made
    returned,           \* history: what each bounded retry returned, and
                        \* after how many attempts
    message,            \* the message of this pass (its number), 0 if none
    unsent_queue,       \* unsent_queue
    retry_queue,        \* retry_queue
    todo,               \* what `for old_msg in unsent_queue` has yet to visit
    created,            \* messages created so far
    sent,               \* history: messages for which a send returned True
    resent              \* history: those for which it was a retry that did

vars == <<variant, pc, running, now, netUp, connected, client_lock, handshakes,
          faults, send_queue, msg, sendRes, worker, last_time,
          SLAVE_READY_STATE, ERROR_STATE, LED_USED, RUNNING, slave_ip_address,
          command_queue, cmd_request, cmd_result, threads, nextToken,
          enqueued, delivered, clean, received, responses, handled,
          cleared_at, disconnects, send_at_clear,
          attempt, returned, message, unsent_queue, retry_queue, todo,
          created, sent, resent>>

msgVars == <<send_queue, msg, sendRes, worker, last_time, enqueued, delivered>>
cmdVars == <<SLAVE_READY_STATE, ERROR_STATE, LED_USED, RUNNING, slave_ip_address,
             command_queue, cmd_request, cmd_result, threads, nextToken,
             received, responses, handled>>
envVars == <<netUp, connected, client_lock, handshakes, faults, clean>>
shutVars == <<cleared_at, disconnects, send_at_clear>>
singleVars == <<attempt, returned, message, unsent_queue, retry_queue, todo,
                created, sent, resent>>

Tasks == {"main", "sender", "sensor", "heartbeat", "command_processor"}
Variants == {"thread", "simple"}
NoMsg == [type |-> "none", src |-> "none", n |-> 0, body |-> "-"]
NoCmd == [name |-> "none", payload |-> "none", token |-> 0]
NoResult == [status |-> "none", code |-> 0]

\* MSGTYPE = ["telemetry", "propertyUpdate"] / ["TELEMETRY", "PROPERTY"]
MSGTYPE == <<"telemetry", "propertyUpdate">>

Goto(t, l) == pc' = [pc EXCEPT ![t] = l]

(* ------------------------- readiness / status -------------------------- *)
\* a status() that looks at the readiness flag before the error flag
status_ready_first ==
    IF ~SLAVE_READY_STATE THEN "AwaitingSlave"
    ELSE IF ERROR_STATE THEN "Error"
    ELSE "Ready"

status ==
    IF ERROR_STATE THEN "Error"
    ELSE IF ~SLAVE_READY_STATE THEN "AwaitingSlave"
    ELSE "Ready"

led_status == IF LED_USED THEN "BUSY" ELSE "READY"

(* --------------------------- creating messages ------------------------- *)
Count(src) == Cardinality({m \in enqueued : m.src = src})

create_telemetry ==
    [type |-> MSGTYPE[1], src |-> "sensor", n |-> Count("sensor") + 1, body |-> "-"]

\* a heartbeat that reports the label computed once at start-up
create_heartbeat_cached ==
    [type |-> MSGTYPE[1], src |-> "heartbeat", n |-> Count("heartbeat") + 1,
     body |-> IF variant = "thread" THEN "AwaitingSlave" ELSE "READY"]

\* the thread program reports status(); the simple program reports the LED
\* status (its SlaveStatus field pings the slave and is left out)
create_heartbeat ==
    [type |-> MSGTYPE[1], src |-> "heartbeat", n |-> Count("heartbeat") + 1,
     body |-> IF variant = "thread" THEN status ELSE led_status]

create_master_info_msg ==
    [type |-> MSGTYPE[2], src |-> "main", n |-> 1, body |-> "-"]

\* a put that inserts at the head of the queue instead of the tail
put_at_head(m) ==
    /\ send_queue' = <<m>> \o send_queue
    /\ enqueued' = enqueued \cup {m}

\* a put that waits until the session is connected
put_when_connected(m) ==
    /\ connected
    /\ send_queue' = Append(send_queue, m)
    /\ enqueued' = enqueued \cup {m}

\* send_queue.put(m)
put(m) ==
    /\ send_queue' = Append(send_queue, m)
    /\ enqueued' = enqueued \cup {m}

(* ----------------------------- collaborators --------------------------- *)
\* the clock is followed for MaxTicks ticks, and to the end of a grace sleep
\* that main has begun
Tick ==
    /\ \/ now < StartTime + MaxTicks
       \/ pc["main"] = "grace" /\ now < cleared_at + GracePeriod
    /\ now' = now + 1
    /\ UNCHANGED <<variant, singleVars, shutVars, pc, running, msgVars, cmdVars, envVars>>

NetworkDown ==
    /\ netUp
    /\ faults < MaxFaults
    /\ netUp' = FALSE
    /\ faults' = faults + 1
    /\ UNCHANGED <<variant, singleVars, shutVars, pc, running, now, connected, client_lock, handshakes,
                   clean, msgVars, cmdVars>>

NetworkUp ==
    /\ ~netUp
    /\ netUp' = TRUE
    /\ UNCHANGED <<variant, singleVars, shutVars, pc, running, now, connected, client_lock, handshakes,
                   faults, clean, msgVars, cmdVars>>

SessionDrop ==
    /\ connected
    /\ faults < MaxFaults
    /\ connected' = FALSE
    /\ faults' = faults + 1
    /\ UNCHANGED <<variant, singleVars, shutVars, pc, running, now, netUp, client_lock, handshakes,
                   clean, msgVars, cmdVars>>

is_network_connected == netUp

(* ----------------------------- IoT hub session ------------------------- *)
\* a connect that does not read client.connected and always handshakes
connect_without_check(t, next) ==
    /\ pc[t] = "connect"
    /\ client_lock = "free"
    /\ Goto(t, "handshake")
    /\ client_lock' = t
    /\ UNCHANGED <<variant, singleVars, shutVars, running, now, netUp, connected, handshakes, faults,
                   clean, msgVars, cmdVars>>

\* a connect that handshakes without taking the lock
connect_without_lock(t, next) ==
    /\ pc[t] = "connect"
    /\ IF connected THEN Goto(t, next) ELSE Goto(t, "handshake")
    /\ UNCHANGED <<variant, singleVars, shutVars, running, now, netUp, connected, client_lock,
                   handshakes, faults, clean, msgVars, cmdVars>>

\* connect_to_iot_hub, entry: takes the lock and reads client.connected. When
\* the client is connected the with-block ends at once, the handlers are set
\* and True is returned: the caller goes on to `next`.
connect_to_iot_hub(t, next) ==
    /\ pc[t] = "connect"
    /\ client_lock = "free"
    /\ IF connected
         THEN /\ Goto(t, next)
              /\ UNCHANGED client_lock
         ELSE /\ Goto(t, "handshake")
              /\ client_lock' = t
    /\ UNCHANGED <<variant, singleVars, shutVars, running, now, netUp, connected, handshakes, faults,
                   clean, msgVars, cmdVars>>

\* client.connect() succeeded: the lock is released and True is returned
handshake_ok(t, next) ==
    /\ pc[t] = "handshake"
    /\ netUp
    /\ connected' = TRUE
    /\ handshakes' = handshakes + 1
    /\ client_lock' = "free"
    /\ Goto(t, next)
    /\ UNCHANGED <<variant, singleVars, shutVars, running, now, netUp, faults, clean, msgVars, cmdVars>>

\* client.connect() raised. The thread program's handler sleeps on the
\* undefined name retry_interval: NameError leaves the function and ends the
\* calling task. my_azure's handler sleeps RECONNECT_INTERVAL and the function
\* returns True all the same.
handshake_failed(t, next) ==
    /\ pc[t] = "handshake"
    /\ \/ ~netUp /\ UNCHANGED faults
       \/ netUp /\ faults < MaxFaults /\ faults' = faults + 1
    /\ handshakes' = handshakes + 1
    /\ client_lock' = "free"
    /\ clean' = FALSE
    /\ Goto(t, IF variant = "thread" THEN "dead" ELSE next)
    /\ UNCHANGED <<variant, singleVars, shutVars, running, now, netUp, connected, msgVars, cmdVars>>

(* ------------------------------ sender task ---------------------------- *)
\* while running_event.is_set():
sender_loop ==
    /\ pc["sender"] = "loop"
    /\ Goto("sender", IF running THEN "get" ELSE "exit")
    /\ UNCHANGED <<variant, singleVars, shutVars, running, now, msgVars, cmdVars, envVars>>

get(q) == Head(q)

\* msg = send_queue.get(): blocks while the queue is empty
sender_get ==
    /\ pc["sender"] = "get"
    /\ send_queue # <<>>
    /\ msg' = get(send_queue)
    /\ send_queue' = Tail(send_queue)
    /\ Goto("sender", "net")
    /\ UNCHANGED <<variant, singleVars, shutVars, running, now, sendRes, worker, last_time, enqueued,
                   delivered, cmdVars, envVars>>

\* thread: while not is_network_connected(): sleep(check_interval_sec)
\* simple: network.wait_until_connected(), whose loop body calls time.sleep
\*         in a module that never imports time: NameError ends the task
wait_until_connected(t, next) ==
    /\ pc[t] = "net"
    /\ IF is_network_connected
         THEN Goto(t, next) /\ UNCHANGED clean
         ELSE /\ Goto(t, IF variant = "thread" THEN "net" ELSE "dead")
              /\ clean' = FALSE
    /\ UNCHANGED <<variant, singleVars, shutVars, running, now, netUp, connected, client_lock,
                   handshakes, faults, msgVars, cmdVars>>

\* a send_with_timeout that submits every message through send_message
via_send_message_only(m) == "send_message"

\* the session call send_with_timeout submits for a message
via(m) == IF m.type = MSGTYPE[1] THEN "send_message"
          ELSE "patch_twin_reported_properties"

deliver(m) == delivered' = Append(delivered, [msg |-> m, via |-> via(m)])

\* a Sender that puts its message back after every send, successful or not
requeue_after_send(res) == send_queue' = Append(send_queue, msg)

\* what the Sender does with its message once send_with_timeout is back:
\* the returned value is not read, so the message is let go whatever it was
sender_after_send(res) == UNCHANGED send_queue

\* a send_with_timeout that reports success whatever future.result did
returns_true_always(res) == TRUE

\* the value send_with_timeout returns for an outcome of future.result: True
\* after it returned, False from both except clauses
send_returns(res) == res = "ok"

\* send_with_timeout, future.result(timeout): the submitted call completed in
\* time (True), raised (False), or is still running at the timeout (False).
\* A call that completes has gone through the session, which connects by
\* itself when it has to: client.connected is true afterwards.
send_with_timeout ==
    /\ pc["sender"] = "send"
    /\ \/ /\ netUp
          /\ sendRes' = "ok"
          /\ deliver(msg)
          /\ connected' = TRUE
          /\ worker' = "idle"
          /\ UNCHANGED <<faults, clean>>
       \/ /\ \E r \in {"error", "timeout"} :
               /\ sendRes' = r
               /\ worker' = IF r = "timeout" THEN "running" ELSE "idle"
          /\ \/ ~netUp /\ UNCHANGED faults
             \/ netUp /\ faults < MaxFaults /\ faults' = faults + 1
          /\ clean' = FALSE
          /\ UNCHANGED <<delivered, connected>>
    /\ Goto("sender", "shutdown")
    /\ UNCHANGED <<variant, singleVars, shutVars, running, now, netUp, client_lock, handshakes,
                   send_queue, msg, last_time, enqueued, cmdVars>>

\* leaving the with-block: ThreadPoolExecutor.__exit__ waits for the worker,
\* whose call, when it timed out, ends now: delivered late, or failed
executor_exit ==
    /\ pc["sender"] = "shutdown"
    /\ \/ worker = "idle" /\ UNCHANGED delivered
       \/ worker = "running" /\ netUp /\ deliver(msg)
       \/ worker = "running" /\ UNCHANGED delivered
    /\ worker' = "idle"
    /\ sender_after_send(sendRes)
    /\ msg' = NoMsg
    /\ Goto("sender", "loop")
    /\ UNCHANGED <<variant, singleVars, shutVars, running, now, sendRes, last_time, enqueued,
                   cmdVars, envVars>>

\* One pass of sender_task. connect_to_iot_hub returns True on every path
\* that returns at all, so the branch under `if not connect_to_iot_hub(...)`
\* (sleep, put the message back, continue) is never taken; and since
\* send_with_timeout catches what the session call raises, neither is the
\* except branch around it.
sender_task ==
    \/ sender_loop
    \/ sender_get
    \/ wait_until_connected("sender", "connect")
    \/ connect_to_iot_hub("sender", "send")
    \/ handshake_ok("sender", "send")
    \/ handshake_failed("sender", "send")
    \/ send_with_timeout
    \/ executor_exit

(* ------------------------------- producers ----------------------------- *)
\* a producer that puts a message on every pass of its loop, whatever time
\* has elapsed
producer_unthrottled(t, interval, m) ==
    /\ pc[t] = "loop"
    /\ IF ~running
         THEN Goto(t, "exit") /\ UNCHANGED <<last_time, send_queue, enqueued>>
         ELSE /\ last_time' = [last_time EXCEPT ![t] = now]
              /\ put(m)
              /\ UNCHANGED pc
    /\ UNCHANGED <<variant, singleVars, shutVars, running, now, msg, sendRes, worker, delivered,
                   cmdVars, envVars>>

\* one iteration of a producer loop: the elapsed time is compared against
\* the interval, and a message is created and put when it has passed
producer(t, interval, m) ==
    /\ pc[t] = "loop"
    /\ IF ~running
         THEN Goto(t, "exit") /\ UNCHANGED <<last_time, send_queue, enqueued>>
         ELSE /\ now - last_time[t] >= interval
              /\ last_time' = [last_time EXCEPT ![t] = now]
              /\ put(m)
              /\ UNCHANGED pc
    /\ UNCHANGED <<variant, singleVars, shutVars, running, now, msg, sendRes, worker, delivered,
                   cmdVars, envVars>>

sensor_task == producer("sensor", TelemetryInterval, create_telemetry)

heartbeat_task == producer("heartbeat", HeartbeatInterval, create_heartbeat)

(* --------------------------- inbound commands -------------------------- *)
\* names the remote endpoint invokes: the names the running program routes,
\* a name only the other program routes, and a name neither knows; and the
\* shapes of a payload: a mapping, a mapping whose "delay" is text, and a
\* value that is no mapping
CmdNames ==
    IF variant = "thread" THEN {"restart", "Stop", "doesNotExist"}
    ELSE {"RestartSlave", "SetSlaveIP", "Stop", "doesNotExist"}
Payloads == {"mapping", "mapping_text_delay", "scalar"}

\* command_handler: the session's on_method_request_received callback, set
\* by connect_to_iot_hub when it returns, puts the request on the queue
method_request_received(names, payloads) ==
    /\ pc["main"] \in {"start", "init_msg", "loop", "finally", "grace", "disconnect"}
    /\ connected
    /\ nextToken <= MaxCmds
    /\ \E name \in names, payload \in payloads :
         command_queue' = Append(command_queue,
             [name |-> name, payload |-> payload, token |-> nextToken])
    /\ nextToken' = nextToken + 1
    /\ UNCHANGED <<variant, singleVars, shutVars, pc, running, now, msgVars, envVars,
                   SLAVE_READY_STATE, ERROR_STATE, LED_USED, RUNNING,
                   slave_ip_address, cmd_request, cmd_result, threads,
                   received, responses, handled>>

command_handler == method_request_received(CmdNames, Payloads)

\* the remote endpoint invokes Stop, and nothing else
stop_invoked == method_request_received({"Stop"}, {"mapping"})

\* the handler the routing picks for a name, "none" when no branch matches
handler_of(name) ==
    IF variant = "thread"
      THEN IF name = "restart" THEN "restart_cmd" ELSE "none"
      ELSE IF name = "RestartSlave" THEN "restart_cmd"
           ELSE IF name = "SetSlaveIP" THEN "set_slave_ip_cmd"
           ELSE IF name = "Stop" THEN "stop_cmd"
           ELSE "none"

\* cmd_payload.get(...) raises AttributeError on a payload that is no mapping
raises(h, payload) ==
    h \in {"restart_cmd", "set_slave_ip_cmd"} /\ payload = "scalar"

restart_cmd == [status |-> "restarted", code |-> 200]
set_slave_ip_cmd == [status |-> "updated", code |-> 200]
stop_cmd == [status |-> "Recived", code |-> 999]
\* an unmatched name answered with 400 instead of 404
unknown_command_400 == [status |-> "Unknown command", code |-> 400]

unknown_command == [status |-> "Unknown command", code |-> 404]
processing_error == [status |-> "error", code |-> 500]

\* the try/except of command_processor_task: (status, code) for a request
route(name, payload) ==
    LET h == handler_of(name) IN
    IF h = "none" THEN unknown_command
    ELSE IF raises(h, payload) THEN processing_error
    ELSE IF h = "restart_cmd" THEN restart_cmd
    ELSE IF h = "set_slave_ip_cmd" THEN set_slave_ip_cmd
    ELSE stop_cmd

\* the thread a handler starts: threading.Thread(target=...).start()
spawn(name, payload, token) ==
    LET h == handler_of(name) IN
    IF h = "restart_cmd" /\ ~raises(h, payload)
      THEN <<[kind |-> "restart", pc |-> "begin", token |-> token,
              delay |-> IF payload = "mapping" THEN "number" ELSE "text"]>>
    ELSE IF h = "stop_cmd"
      THEN <<[kind |-> "stop", pc |-> "sleep", token |-> token, delay |-> "number"]>>
    ELSE <<>>

\* a routing without the except clause: a raising handler ends the thread
after_route_uncaught(raised) == IF raised THEN "dead" ELSE "respond"

\* where the dispatcher goes after the routing: every exception of a handler
\* is caught, so it always goes on to build the response
after_route(raised) == "respond"

\* a response that carries the id of the first request instead of its own
create_with_first_token(req, result) ==
    [token |-> 1, code |-> result.code, status |-> result.status]

\* MethodResponse.create_from_method_request(cmd_request, code, payload)
create_from_method_request(req, result) ==
    [token |-> req.token, code |-> result.code, status |-> result.status]

\* a dispatcher that waits for every restart thread to end before it takes
\* the next request
cmd_loop_after_join ==
    /\ pc["command_processor"] = "loop"
    /\ \A k \in 1..Len(threads) : threads[k].pc \in {"done", "dead"}
    /\ Goto("command_processor", IF running THEN "get" ELSE "exit")
    /\ UNCHANGED <<variant, singleVars, shutVars, running, now, msgVars, cmdVars, envVars>>

\* while running_event.is_set():
cmd_loop ==
    /\ pc["command_processor"] = "loop"
    /\ Goto("command_processor", IF running THEN "get" ELSE "exit")
    /\ UNCHANGED <<variant, singleVars, shutVars, running, now, msgVars, cmdVars, envVars>>

\* a dispatcher that takes the newest request of the queue instead of the
\* oldest
cmd_get_newest_first ==
    /\ pc["command_processor"] = "get"
    /\ command_queue # <<>>
    /\ cmd_request' = command_queue[Len(command_queue)]
    /\ command_queue' = SubSeq(command_queue, 1, Len(command_queue) - 1)
    /\ received' = Append(received, command_queue[Len(command_queue)])
    /\ Goto("command_processor", "route")
    /\ UNCHANGED <<variant, singleVars, shutVars, running, now, msgVars, envVars, SLAVE_READY_STATE,
                   ERROR_STATE, LED_USED, RUNNING, slave_ip_address, cmd_result,
                   threads, nextToken, responses, handled>>

\* cmd_request = command_queue.get(): blocks while the queue is empty
cmd_get ==
    /\ pc["command_processor"] = "get"
    /\ command_queue # <<>>
    /\ cmd_request' = Head(command_queue)
    /\ command_queue' = Tail(command_queue)
    /\ received' = Append(received, Head(command_queue))
    /\ Goto("command_processor", "route")
    /\ UNCHANGED <<variant, singleVars, shutVars, running, now, msgVars, envVars, SLAVE_READY_STATE,
                   ERROR_STATE, LED_USED, RUNNING, slave_ip_address, cmd_result,
                   threads, nextToken, responses, handled>>

\* COMMAND ROUTING: the handler runs inside the try
cmd_route ==
    /\ pc["command_processor"] = "route"
    /\ LET name == cmd_request.name
           payload == cmd_request.payload
           h == handler_of(name)
       IN /\ cmd_result' = route(name, payload)
          /\ threads' = threads \o spawn(name, payload, cmd_request.token)
          /\ handled' = IF h = "none" THEN handled
                        ELSE handled \cup {cmd_request.token}
          /\ slave_ip_address' =
                IF h = "set_slave_ip_cmd" /\ ~raises(h, payload)
                  THEN TRUE ELSE slave_ip_address
          /\ Goto("command_processor", after_route(raises(h, payload)))
    /\ UNCHANGED <<variant, singleVars, shutVars, running, now, msgVars, envVars, SLAVE_READY_STATE,
                   ERROR_STATE, LED_USED, RUNNING, command_queue, cmd_request,
                   nextToken, received, responses>>

\* a dispatcher that answers nothing on the error path
respond_unless_error(req, result) ==
    IF result.code = 500 THEN <<>>
    ELSE <<[token |-> req.token, code |-> result.code, status |-> result.status]>>

\* what one pass of the loop hands to send_method_response
respond(req, result) == <<create_from_method_request(req, result)>>

\* SEND COMMAND RESPONSE: client.send_method_response(response) returns, or
\* raises when the session cannot carry it; nothing catches that, and the
\* dispatcher thread ends
cmd_respond ==
    /\ pc["command_processor"] = "respond"
    /\ \E ok \in BOOLEAN :
         /\ IF ok THEN netUp ELSE ~netUp \/ ~connected
         /\ responses' = responses \o
               [i \in 1..Len(respond(cmd_request, cmd_result)) |->
                  [token |-> respond(cmd_request, cmd_result)[i].token,
                   code |-> respond(cmd_request, cmd_result)[i].code,
                   status |-> respond(cmd_request, cmd_result)[i].status,
                   sent |-> ok]]
         /\ Goto("command_processor", IF ok THEN "loop" ELSE "dead")
    /\ cmd_request' = NoCmd
    /\ cmd_result' = NoResult
    /\ UNCHANGED <<variant, singleVars, shutVars, running, now, msgVars, envVars, SLAVE_READY_STATE,
                   ERROR_STATE, LED_USED, RUNNING, slave_ip_address,
                   command_queue, threads, nextToken, received, handled>>

command_processor_task == cmd_loop \/ cmd_get \/ cmd_route \/ cmd_respond

(* --------------------------- spawned threads --------------------------- *)
SetThread(i, l) == threads' = [threads EXCEPT ![i].pc = l]

\* the readiness flag a restart writes: SLAVE_READY_STATE (thread program,
\* False while restarting) or LED_USED (simple program, True while restarting)
SetRestarting(b) ==
    IF variant = "thread"
      THEN SLAVE_READY_STATE' = ~b /\ UNCHANGED LED_USED
      ELSE LED_USED' = b /\ UNCHANGED SLAVE_READY_STATE

\* restart_slave_task up to time.sleep(delay_sec): a text delay raises
\* TypeError in `delay_sec < 0` before the flag is written
restart_begin(i) ==
    /\ threads[i].kind = "restart" /\ threads[i].pc = "begin"
    /\ IF threads[i].delay = "text"
         THEN SetThread(i, "dead") /\ UNCHANGED <<SLAVE_READY_STATE, LED_USED>>
         ELSE SetThread(i, "sleep") /\ SetRestarting(TRUE)
    /\ UNCHANGED <<variant, singleVars, shutVars, pc, running, now, msgVars, envVars, ERROR_STATE,
                   RUNNING, slave_ip_address, command_queue, cmd_request,
                   cmd_result, nextToken, received, responses, handled>>

\* Slave(...).power_cycle(off_duration): the relay is switched on
power_cycle_begin(i) ==
    /\ threads[i].kind = "restart" /\ threads[i].pc = "sleep"
    /\ SetThread(i, "cycle")
    /\ UNCHANGED <<variant, singleVars, shutVars, pc, running, now, msgVars, envVars,
                   SLAVE_READY_STATE, ERROR_STATE, LED_USED, RUNNING,
                   slave_ip_address, command_queue, cmd_request, cmd_result,
                   nextToken, received, responses, handled>>

\* power_cycle returns and the flag is written back, or the relay raised
\* and the thread ends without writing it
power_cycle_end(i) ==
    /\ threads[i].kind = "restart" /\ threads[i].pc = "cycle"
    /\ \/ SetThread(i, "done") /\ SetRestarting(FALSE)
       \/ SetThread(i, "dead") /\ UNCHANGED <<SLAVE_READY_STATE, LED_USED>>
    /\ UNCHANGED <<variant, singleVars, shutVars, pc, running, now, msgVars, envVars, ERROR_STATE,
                   RUNNING, slave_ip_address, command_queue, cmd_request,
                   cmd_result, nextToken, received, responses, handled>>

restart_slave_task ==
    \E i \in 1..Len(threads) :
        \/ restart_begin(i)
        \/ power_cycle_begin(i)
        \/ power_cycle_end(i)

\* stop_task: time.sleep(3); RUNNING = False
stop_task ==
    \E i \in 1..Len(threads) :
        /\ threads[i].kind = "stop" /\ threads[i].pc = "sleep"
        /\ SetThread(i, "done")
        /\ RUNNING' = FALSE
        /\ UNCHANGED <<variant, singleVars, shutVars, pc, running, now, msgVars, envVars,
                       SLAVE_READY_STATE, ERROR_STATE, LED_USED,
                       slave_ip_address, command_queue, cmd_request,
                       cmd_result, nextToken, received, responses, handled>>

(* --------------------------------- main -------------------------------- *)
\* thread: if not is_network_connected(): return
\* simple: network.wait_until_connected()
main_network ==
    /\ pc["main"] = "net"
    /\ IF is_network_connected
         THEN Goto("main", "connect") /\ UNCHANGED clean
         ELSE /\ Goto("main", IF variant = "thread" THEN "exit" ELSE "dead")
              /\ clean' = FALSE
    /\ UNCHANGED <<variant, singleVars, shutVars, running, now, netUp, connected, client_lock,
                   handshakes, faults, msgVars, cmdVars>>

\* running.set() and the start() of every worker thread; the simple program
\* has no sensor task
main_start ==
    /\ pc["main"] = "start"
    /\ running' = TRUE
    /\ pc' = [t \in Tasks |->
                IF t = "main" THEN "init_msg"
                ELSE IF t = "sensor" /\ variant = "simple" THEN "idle"
                ELSE "loop"]
    /\ UNCHANGED <<variant, singleVars, shutVars, now, msgVars, cmdVars, envVars>>

\* send_queue.put([MSGTYPE[1], create_master_info_msg()])
main_init_msg ==
    /\ pc["main"] = "init_msg"
    /\ put(create_master_info_msg)
    /\ Goto("main", "loop")
    /\ UNCHANGED <<variant, singleVars, shutVars, running, now, msg, sendRes, worker, last_time,
                   delivered, cmdVars, envVars>>

\* main up to the start of the worker threads
main_startup ==
    \/ main_network
    \/ connect_to_iot_hub("main", "start")
    \/ handshake_ok("main", "start")
    \/ handshake_failed("main", "start")
    \/ main_start

main == main_startup \/ main_init_msg

\* Ctrl-C while main is inside its try block: before the initial message is
\* put, or in the sleep of the loop
KeyboardInterrupt ==
    /\ pc["main"] \in {"init_msg", "loop"}
    /\ Goto("main", "finally")
    /\ UNCHANGED <<variant, singleVars, shutVars, running, now, msgVars, cmdVars, envVars>>

\* simple: `while RUNNING` reads False and the loop ends; the thread
\* program's `while True` has no such exit
main_loop ==
    /\ pc["main"] = "loop"
    /\ variant = "simple"
    /\ ~RUNNING
    /\ Goto("main", "finally")
    /\ UNCHANGED <<variant, singleVars, shutVars, running, now, msgVars, cmdVars, envVars>>

\* a clearing of the flag that also cuts short the send in flight
main_clear_cancels_send ==
    /\ pc["main"] = "finally"
    /\ running' = FALSE
    /\ cleared_at' = now
    /\ send_at_clear' = (pc["sender"] = "send")
    /\ pc' = [pc EXCEPT !["main"] = "grace",
                        !["sender"] = IF @ = "send" THEN "exit" ELSE @]
    /\ UNCHANGED <<variant, singleVars, disconnects, now, msgVars, cmdVars, envVars>>

\* finally: running.clear()
main_clear ==
    /\ pc["main"] = "finally"
    /\ running' = FALSE
    /\ cleared_at' = now
    /\ send_at_clear' = (pc["sender"] = "send")
    /\ Goto("main", "grace")
    /\ UNCHANGED <<variant, singleVars, disconnects, now, msgVars, cmdVars, envVars>>

\* a shutdown that does not wait before it disconnects
main_no_grace ==
    /\ pc["main"] = "grace"
    /\ Goto("main", "disconnect")
    /\ UNCHANGED <<variant, singleVars, shutVars, running, now, msgVars, cmdVars, envVars>>

\* time.sleep(2), after the timed joins of the simple program, returns once
\* the grace period has passed
main_grace ==
    /\ pc["main"] = "grace"
    /\ now >= cleared_at + GracePeriod
    /\ Goto("main", "disconnect")
    /\ UNCHANGED <<variant, singleVars, shutVars, running, now, msgVars, cmdVars, envVars>>

\* client.disconnect(), after which main returns
main_disconnect ==
    /\ pc["main"] = "disconnect"
    /\ connected' = FALSE
    /\ disconnects' = disconnects + 1
    /\ Goto("main", "exit")
    /\ UNCHANGED <<variant, singleVars, cleared_at, send_at_clear, running, now, netUp,
                   client_lock, handshakes, faults, clean, msgVars, cmdVars>>

main_shutdown == main_loop \/ main_clear \/ main_grace \/ main_disconnect

(* ---------------------- the single-threaded program -------------------- *)
\* src/azure-iot-example.py, lines 1-215: main connects with bounded retries
\* and then creates, sends and retries messages in one loop. pc["main"] is
\* its position; the variable `variant` is "single" when it runs.

\* a range(1, max_retries) that stops one attempt early
range_last_exclusive(max_retries) == max_retries - 1

\* for attempt in range(1, max_retries + 1): the last value attempt takes
range_last(max_retries) == max_retries

Return(fn, value, n) ==
    returned' = Append(returned, [fn |-> fn, value |-> value, attempts |-> n])

\* what a step of the single-threaded main leaves alone besides its own state
SingleFrame ==
    UNCHANGED <<variant, running, now, client_lock, clean, msgVars, cmdVars,
                cleared_at, send_at_clear>>

\* connect_to_network(max_retries), called at position l: one attempt per
\* step. A probe that succeeds returns True at once; one that fails is
\* followed by time.sleep(retry_interval); the exhausted loop returns False
connect_to_network(l, ok, fail) ==
    /\ pc["main"] = l
    /\ IF attempt >= range_last(MaxRetries)
         THEN /\ Return("connect_to_network", FALSE, attempt)
              /\ attempt' = 0
              /\ Goto("main", fail)
         ELSE IF is_network_connected
           THEN /\ Return("connect_to_network", TRUE, attempt + 1)
                /\ attempt' = 0
                /\ Goto("main", ok)
           ELSE /\ attempt' = attempt + 1
                /\ UNCHANGED <<returned, pc>>
    /\ UNCHANGED <<netUp, connected, handshakes, faults, disconnects, message,
                   unsent_queue, retry_queue, todo, created, sent, resent>>
    /\ SingleFrame

\* connect_to_iot_hub(client, max_retries): one client.connect() per step;
\* it returns True when the call returns, sleeps and goes on when the call
\* raised, and returns False when the loop is exhausted
single_connect_to_iot_hub(l, ok, fail) ==
    /\ pc["main"] = l
    /\ IF attempt >= range_last(MaxRetries)
         THEN /\ Return("connect_to_iot_hub", FALSE, attempt)
              /\ attempt' = 0
              /\ Goto("main", fail)
              /\ UNCHANGED <<connected, handshakes, faults>>
         ELSE \/ /\ netUp
                 /\ connected' = TRUE
                 /\ handshakes' = handshakes + 1
                 /\ Return("connect_to_iot_hub", TRUE, attempt + 1)
                 /\ attempt' = 0
                 /\ Goto("main", ok)
                 /\ UNCHANGED faults
              \/ /\ \/ ~netUp /\ UNCHANGED faults
                    \/ netUp /\ faults < MaxFaults /\ faults' = faults + 1
                 /\ handshakes' = handshakes + 1
                 /\ attempt' = attempt + 1
                 /\ UNCHANGED <<returned, pc, connected>>
    /\ UNCHANGED <<netUp, disconnects, message, unsent_queue, retry_queue, todo,
                   created, sent, resent>>
    /\ SingleFrame

\* msg = create_telemetry(); message = prepaere_message(msg)
single_create_message ==
    /\ pc["main"] = "create"
    /\ created < MaxRounds
    /\ created' = created + 1
    /\ message' = created + 1
    /\ Goto("main", "send")
    /\ UNCHANGED <<netUp, connected, handshakes, faults, disconnects, attempt,
                   returned, unsent_queue, retry_queue, todo, sent, resent>>
    /\ SingleFrame

\* the outcome r of one send_with_timeout(client, m) of the single-threaded
\* program: the call completed in time, raised, or timed out
single_send_with_timeout(r) ==
    \/ /\ r = "ok"
       /\ netUp
       /\ connected' = TRUE
       /\ UNCHANGED faults
    \/ /\ r \in {"error", "timeout"}
       /\ \/ ~netUp /\ UNCHANGED faults
          \/ netUp /\ faults < MaxFaults /\ faults' = faults + 1
       /\ UNCHANGED connected

\* a retry pass that forgets the message whose retry failed
drop_failed(r, q, m) == q

\* if not send_with_timeout(client, old_msg): retry_queue.append(old_msg)
append_if_failed(r, q, m) == IF send_returns(r) THEN q ELSE Append(q, m)

\* if not send_with_timeout(client, message): unsent_queue.append(message);
\* then retry_queue = [] and the for loop over unsent_queue begins
single_send_new ==
    /\ pc["main"] = "send"
    /\ \E r \in {"ok", "error", "timeout"} :
         /\ single_send_with_timeout(r)
         /\ unsent_queue' = IF send_returns(r) THEN unsent_queue
                            ELSE Append(unsent_queue, message)
         /\ sent' = IF send_returns(r) THEN sent \cup {message} ELSE sent
    /\ todo' = unsent_queue'
    /\ retry_queue' = <<>>
    /\ Goto("main", "retry")
    /\ UNCHANGED <<netUp, handshakes, disconnects, attempt, returned, message,
                   created, resent>>
    /\ SingleFrame

\* one pass of `for old_msg in unsent_queue`
single_retry_old ==
    /\ pc["main"] = "retry"
    /\ todo # <<>>
    /\ \E r \in {"ok", "error", "timeout"} :
         /\ single_send_with_timeout(r)
         /\ retry_queue' = append_if_failed(r, retry_queue, Head(todo))
         /\ sent' = IF send_returns(r) THEN sent \cup {Head(todo)} ELSE sent
         /\ resent' = IF send_returns(r) THEN resent \cup {Head(todo)} ELSE resent
    /\ todo' = Tail(todo)
    /\ UNCHANGED <<pc, netUp, handshakes, disconnects, attempt, returned, message,
                   unsent_queue, created>>
    /\ SingleFrame

\* unsent_queue = retry_queue, when the for loop is through
single_retry_done ==
    /\ pc["main"] = "retry"
    /\ todo = <<>>
    /\ unsent_queue' = retry_queue
    /\ message' = 0
    /\ Goto("main", "health_net")
    /\ UNCHANGED <<netUp, connected, handshakes, faults, disconnects, attempt,
                   returned, retry_queue, todo, created, sent, resent>>
    /\ SingleFrame

\* if not is_network_connected(): ... connect_to_network()
single_check_network ==
    /\ pc["main"] = "health_net"
    /\ Goto("main", IF is_network_connected THEN "health_client" ELSE "renet")
    /\ UNCHANGED <<netUp, connected, handshakes, faults, disconnects, singleVars>>
    /\ SingleFrame

\* if not client.connected: connect_iothub(client) is an undefined name, and
\* the NameError leaves the loop through the finally block;
\* else time.sleep(TELEMETRY_INTERVAL_SEC)
single_check_client ==
    /\ pc["main"] = "health_client"
    /\ Goto("main", IF connected THEN "create" ELSE "finally")
    /\ UNCHANGED <<netUp, connected, handshakes, faults, disconnects, singleVars>>
    /\ SingleFrame

\* finally: client.disconnect()
single_finally ==
    /\ pc["main"] = "finally"
    /\ connected' = FALSE
    /\ disconnects' = disconnects + 1
    /\ Goto("main", "exit")
    /\ UNCHANGED <<netUp, handshakes, faults, singleVars>>
    /\ SingleFrame

single_startup ==
    \/ connect_to_network("net", "hub", "exit")
    \/ single_connect_to_iot_hub("hub", "create", "exit")

single_loop ==
    \/ single_create_message
    \/ single_send_new
    \/ single_retry_old
    \/ single_retry_done
    \/ single_check_network
    \/ connect_to_network("renet", "health_client", "finally")
    \/ single_check_client
    \/ single_finally

single_main == single_startup \/ single_loop

(* ------------------------------ specification -------------------------- *)
\* the state after the module is loaded, but for the program that runs and
\* the two readiness globals
InitButVariant ==
    /\ pc = [t \in Tasks |-> IF t = "main" THEN "net" ELSE "idle"]
    /\ running = FALSE
    /\ now = StartTime
    /\ netUp \in BOOLEAN
    /\ connected = FALSE
    /\ client_lock = "free"
    /\ handshakes = 0
    /\ faults = 0
    /\ send_queue = <<>>
    /\ msg = NoMsg
    /\ sendRes = "none"
    /\ worker = "idle"
    /\ last_time = [t \in {"sensor", "heartbeat"} |-> 0]
    /\ LED_USED = FALSE
    /\ RUNNING = TRUE
    /\ slave_ip_address = FALSE
    /\ command_queue = <<>>
    /\ cmd_request = NoCmd
    /\ cmd_result = NoResult
    /\ threads = <<>>
    /\ nextToken = 1
    /\ enqueued = {}
    /\ delivered = <<>>
    /\ clean = TRUE
    /\ received = <<>>
    /\ responses = <<>>
    /\ handled = {}
    /\ cleared_at = 0
    /\ disconnects = 0
    /\ send_at_clear = FALSE
    /\ attempt = 0
    /\ returned = <<>>
    /\ message = 0
    /\ unsent_queue = <<>>
    /\ retry_queue = <<>>
    /\ todo = <<>>
    /\ created = 0
    /\ sent = {}
    /\ resent = {}

\* the state after the module is loaded, but for the two readiness globals
InitButReadiness ==
    /\ variant \in Variants
    /\ InitButVariant

Init ==
    /\ InitButReadiness
    /\ SLAVE_READY_STATE = FALSE
    /\ ERROR_STATE = FALSE

Environment == Tick \/ NetworkDown \/ NetworkUp \/ SessionDrop

Next == main \/ sender_task \/ sensor_task \/ heartbeat_task \/ Environment

Spec == Init /\ [][Next]_vars

\* the command path: start-up, the remote endpoint's invocations, the
\* dispatcher and the threads its handlers start
CmdEnvironment == NetworkDown \/ NetworkUp \/ SessionDrop

CmdNext ==
    \/ main_startup
    \/ command_handler
    \/ command_processor_task
    \/ restart_slave_task
    \/ stop_task
    \/ CmdEnvironment

CmdSpec == Init /\ [][CmdNext]_vars

\* the message path with the scheduling the threads get: every task that can
\* take a step eventually takes one, the clock advances, and a lost network
\* comes back; the collaborator faults are bounded, so from some point on the
\* network stays reachable and every handshake and send succeeds
LiveSpec ==
    /\ Init /\ [][Next]_vars
    /\ WF_vars(main)
    /\ WF_vars(sender_task)
    /\ WF_vars(sensor_task)
    /\ WF_vars(heartbeat_task)
    /\ WF_vars(Tick)
    /\ WF_vars(NetworkUp)

\* the command path with the scheduling the threads get: main, the
\* dispatcher and every spawned thread that can take a step eventually takes
\* one, and a lost network comes back
CmdLiveSpec ==
    /\ Init /\ [][CmdNext]_vars
    /\ WF_vars(main_startup)
    /\ WF_vars(command_processor_task)
    /\ WF_vars(restart_slave_task)
    /\ WF_vars(stop_task)
    /\ WF_vars(NetworkUp)

\* main's exit paths: start-up, a user who may interrupt main, a remote
\* endpoint that may invoke Stop, the dispatcher and the stop thread
ExitNext ==
    \/ main
    \/ KeyboardInterrupt
    \/ main_shutdown
    \/ stop_invoked
    \/ command_processor_task
    \/ stop_task
    \/ Tick

ExitSpec == Init /\ [][ExitNext]_vars

\* the clock while main is in its grace sleep
GraceTick == pc["main"] = "grace" /\ Tick

\* shutdown of the whole program: every task, a user who may interrupt main
\* and a remote endpoint that may invoke Stop, under the scheduling the
\* threads get. The shutdown is asked for within the first clock tick: the
\* clock is followed only during main's grace sleep. The worker threads are
\* daemon threads and end with the process when main returns; they are
\* followed beyond that point as if they went on running.
ShutNext ==
    \/ main
    \/ KeyboardInterrupt
    \/ main_shutdown
    \/ sender_task
    \/ sensor_task
    \/ heartbeat_task
    \/ stop_invoked
    \/ command_processor_task
    \/ stop_task
    \/ GraceTick

ShutSpec ==
    /\ Init /\ [][ShutNext]_vars
    /\ WF_vars(main)
    /\ WF_vars(main_shutdown)
    /\ WF_vars(sender_task)
    /\ WF_vars(sensor_task)
    /\ WF_vars(heartbeat_task)
    /\ WF_vars(command_processor_task)
    /\ WF_vars(stop_task)
    /\ WF_vars(GraceTick)

\* the worker threads are daemon threads: they run until main has returned
\* from its shutdown and the process ends, which it does not do while the
\* executor's worker thread is inside a session call (the interpreter joins
\* the workers of every ThreadPoolExecutor when it exits)
ProcessAlive ==
    \/ pc["main"] # "exit"
    \/ pc["sender"] = "send"
    \/ worker = "running"

sender_until_exit == ProcessAlive /\ sender_task
heartbeat_until_exit == ProcessAlive /\ heartbeat_task

\* the Sender during shutdown: start-up, a user who may interrupt main,
\* main's finally block, and the Sender and the heartbeat producer for as
\* long as the process lives; the clock is followed during the grace sleep
DrainNext ==
    \/ main
    \/ KeyboardInterrupt
    \/ main_clear
    \/ main_grace
    \/ main_disconnect
    \/ sender_until_exit
    \/ heartbeat_until_exit
    \/ GraceTick

DrainSpec == Init /\ [][DrainNext]_vars

\* the remote endpoint invokes the restart command of the running program
restart_invoked ==
    method_request_received(
        IF variant = "thread" THEN {"restart"} ELSE {"RestartSlave"},
        {"mapping"})

\* the heartbeat while readiness changes: start-up, the heartbeat producer,
\* a remote endpoint that may invoke restart, the dispatcher, the restart
\* threads and the clock
BeatNext ==
    \/ main
    \/ heartbeat_task
    \/ restart_invoked
    \/ command_processor_task
    \/ restart_slave_task
    \/ Tick

BeatSpec == Init /\ [][BeatNext]_vars

\* shutdown by command: start-up, a remote endpoint that may invoke Stop,
\* the dispatcher, the stop thread, main's loop and finally block and the
\* clock, under the scheduling the threads get; no user interrupts main.
\* send_method_response has no timeout: the dispatcher's response step is
\* taken when the session's call returns
StopNext ==
    \/ main
    \/ main_shutdown
    \/ stop_invoked
    \/ command_processor_task
    \/ stop_task
    \/ Tick

StopSpec ==
    /\ Init /\ [][StopNext]_vars
    /\ WF_vars(main)
    /\ WF_vars(main_shutdown)
    /\ WF_vars(command_processor_task)
    /\ WF_vars(stop_task)
    /\ WF_vars(Tick)

\* the single-threaded program with its collaborators
SingleInit ==
    /\ variant = "single"
    /\ InitButVariant
    /\ SLAVE_READY_STATE = FALSE
    /\ ERROR_STATE = FALSE

SingleNext == single_main \/ NetworkDown \/ NetworkUp \/ SessionDrop

SingleSpec == SingleInit /\ [][SingleNext]_vars

\* status() over every value of its two inputs: the programs never write
\* ERROR_STATE, so the start state draws both globals from BOOLEAN, and the
\* heartbeat producer is what calls status()
StatusInit ==
    /\ InitButReadiness
    /\ SLAVE_READY_STATE \in BOOLEAN
    /\ ERROR_STATE \in BOOLEAN

StatusNext == main \/ sensor_task \/ heartbeat_task \/ Tick

StatusSpec == StatusInit /\ [][StatusNext]_vars

(* ================================ claims ================================ *)
Delivered(m) == \E i \in 1..Len(delivered) : delivered[i].msg = m
InQueue(m) == \E i \in 1..Len(send_queue) : send_queue[i] = m
DeliveryCount(m) == Cardinality({i \in 1..Len(delivered) : delivered[i].msg = m})
SenderIdle == send_queue = <<>> /\ msg = NoMsg /\ pc["sender"] \in {"loop", "get"}

\* C1: no message is lost while the process is alive: every message ever put
\* on the outbound queue is still queued, held by the Sender, or delivered;
\* in particular a message whose send timed out or raised is not discarded.
C1_NoMessageLost ==
    \A m \in enqueued : InQueue(m) \/ msg = m \/ Delivered(m)

\* C2: a message whose send fails N times and then succeeds is observed by
\* the remote endpoint exactly once, and the queue returns to empty: whenever
\* the queue is empty again and the Sender holds nothing, every message that
\* was put has been delivered exactly once.
C2_DeliveredOnceWhenQueueEmpties ==
    SenderIdle => \A m \in enqueued : DeliveryCount(m) = 1

\* C3: when the Sender's send of a message fails (timeout or error), the
\* Sender puts that same message back at the tail of the outbound queue.
C3_FailedSendRequeuedAtTail ==
    [][(/\ pc["sender"] = "shutdown"
        /\ pc'["sender"] # "shutdown"
        /\ sendRes \in {"error", "timeout"})
       => send_queue' = Append(send_queue, msg)]_vars

\* C4: at-least-once delivery: under fair scheduling, with a network that
\* eventually stays reachable and handshakes and sends that eventually
\* succeed, every message put on the outbound queue is eventually delivered.
C4_EventuallyDelivered ==
    <>[](\A m \in enqueued : Delivered(m))

\* Behind the counterexample of C4: a message that is neither queued, held
\* nor delivered stays so in every continuation, whatever the producers put
\* later; the clock bound that ends the trace hides no late delivery.
Lost(m) == ~InQueue(m) /\ msg # m /\ ~Delivered(m)
LostStaysLost ==
    [][\A m \in enqueued : Lost(m) => Lost(m)']_vars

\* C5: FIFO delivery: as long as no network check, handshake or send has
\* failed, the messages of one producer reach the remote endpoint in the
\* order in which that producer put them, each at most once.
C5_FifoPerProducer ==
    clean =>
      \A i, j \in 1..Len(delivered) :
         (i < j /\ delivered[i].msg.src = delivered[j].msg.src)
            => delivered[i].msg.n < delivered[j].msg.n

\* two messages of the sensor task delivered, in a run without any failure
C5_Witness ==
    /\ clean
    /\ \E i, j \in 1..Len(delivered) :
          /\ i < j
          /\ delivered[i].msg.src = "sensor"
          /\ delivered[j].msg.src = "sensor"

\* C10: connect() is idempotent: a call made while the session is connected
\* makes no handshake, leaves the connection state as it is and returns
\* success (the caller goes on: the Sender to its send, main to start-up).
C10_ConnectIdempotent ==
    [][\A t \in {"main", "sender"} :
          (pc[t] = "connect" /\ connected /\ pc'[t] # "connect")
             => /\ handshakes' = handshakes
                /\ connected' = connected
                /\ client_lock' = client_lock
                /\ pc'[t] = IF t = "sender" THEN "send" ELSE "start"]_vars

\* the Sender is back at its send for a second message having gone through
\* connect() on a connected session: the only handshake made is main's
C10_Witness ==
    /\ pc["sender"] = "send"
    /\ connected
    /\ handshakes = 1
    /\ Len(delivered) >= 1

Dispatching == pc["command_processor"] \in {"route", "respond"}
ResponseCount(k) ==
    Cardinality({i \in 1..Len(responses) : responses[i].token = k})
Raised(req) == raises(handler_of(req.name), req.payload)

C7_CodeIn200_404_500_2xx ==
    \A i \in 1..Len(responses) :
       /\ i <= Len(received)
       /\ responses[i].token = received[i].token
       /\ \/ responses[i].code \in {200, 404, 500}
          \/ responses[i].code >= 200 /\ responses[i].code <= 299

\* C7 as amended: every response carries a status code in {200, 404, 500},
\* a 2xx code, or 999 when it answers the simple program's Stop command,
\* and it carries the correlation token of the request it answers.
C7_CodeOrStop999 ==
    \A i \in 1..Len(responses) :
       /\ i <= Len(received)
       /\ responses[i].token = received[i].token
       /\ \/ responses[i].code \in {200, 404, 500}
          \/ responses[i].code >= 200 /\ responses[i].code <= 299
          \/ /\ responses[i].code = 999
             /\ variant = "simple"
             /\ received[i].name = "Stop"

\* the second request consumed was Stop and got 999 under its own token
C7_Witness ==
    /\ Len(responses) = 2
    /\ responses[2].code = 999
    /\ responses[2].token = 2
    /\ received[2].name = "Stop"

\* C8: a request whose name matches no handler, with any payload, is answered
\* (status "Unknown command", code 404) by the dispatcher itself: no handler
\* runs and no thread is started for it, and the routing step changes no
\* readiness flag.
C8_UnknownCommand404 ==
    /\ [](\A i \in 1..Len(received) :
            handler_of(received[i].name) = "none" =>
               /\ received[i].token \notin handled
               /\ \A k \in 1..Len(threads) : threads[k].token # received[i].token
               /\ i <= Len(responses) =>
                     /\ responses[i].status = "Unknown command"
                     /\ responses[i].code = 404)
    /\ [][(/\ pc["command_processor"] = "route"
           /\ handler_of(cmd_request.name) = "none"
           /\ pc'["command_processor"] # "route")
          => /\ pc'["command_processor"] = "respond"
             /\ cmd_result' = [status |-> "Unknown command", code |-> 404]
             /\ UNCHANGED <<SLAVE_READY_STATE, ERROR_STATE, LED_USED, RUNNING,
                            slave_ip_address, threads, handled>>]_vars

\* "doesNotExist" was invoked with each kind of payload and answered
C8_Witness ==
    /\ Len(responses) = 2
    /\ \A i \in 1..2 : received[i].name = "doesNotExist"
    /\ received[1].payload = "scalar"
    /\ received[2].payload = "mapping"
    /\ responses[2].code = 404

\* C9: when a handler raises (a restart or set-IP command whose payload is
\* no mapping), the dispatcher answers that request with code 500 and stays
\* alive: the routing step takes it on to the response, and the dispatcher
\* thread ends only when send_method_response itself raises.
C9_HandlerFailure500 ==
    /\ [](\A i \in 1..Len(responses) :
            Raised(received[i]) =>
               responses[i].code = 500 /\ responses[i].status = "error")
    /\ [](pc["command_processor"] = "dead" =>
            Len(responses) > 0 /\ ~responses[Len(responses)].sent)
    /\ [][(/\ pc["command_processor"] = "route"
           /\ Raised(cmd_request)
           /\ pc'["command_processor"] # "route")
          => /\ pc'["command_processor"] = "respond"
             /\ cmd_result' = [status |-> "error", code |-> 500]]_vars

\* a restart with a payload that is no mapping was answered 500, and the
\* dispatcher has consumed the next request
C9_Witness ==
    /\ Len(received) = 2
    /\ Len(responses) >= 1
    /\ received[1].name \in {"restart", "RestartSlave"}
    /\ received[1].payload = "scalar"
    /\ responses[1].code = 500
    /\ responses[1].sent
    /\ pc["command_processor"] = "route"

\* C11: when the handshake fails, connect() makes that one attempt only and
\* returns failure: the caller does not go on as it does after a successful
\* connect (the Sender to its send, main to the start of the tasks).
C11_ConnectFailureReported ==
    [][\A t \in {"main", "sender"} :
          (pc[t] = "handshake" /\ pc'[t] # "handshake" /\ ~connected')
             => /\ handshakes' = handshakes + 1
                /\ pc'[t] # (IF t = "sender" THEN "send" ELSE "start")]_vars

InHandshake == {t \in Tasks : pc[t] = "handshake"}

\* C12: at most one session handshake is in flight at any time: the task in
\* the handshake is the one that holds the client lock, and the lock is held
\* only during a handshake.
C12_OneHandshakeInFlight ==
    /\ Cardinality(InHandshake) <= 1
    /\ \A t \in Tasks : pc[t] = "handshake" <=> client_lock = t

\* the Sender is in a handshake of its own, after main's, while main and the
\* producers are running
C12_Witness ==
    /\ pc["sender"] = "handshake"
    /\ client_lock = "sender"
    /\ handshakes >= 1
    /\ pc["main"] = "loop"
    /\ pc["heartbeat"] = "loop"

\* C13: send never blocks past its timeout: once the timeout has expired
\* with the session call still running, the Sender is no longer inside send
\* waiting for that call.
C13_SendReturnsAtTimeout ==
    ~(pc["sender"] = "shutdown" /\ sendRes = "timeout" /\ worker = "running")

\* C14: send reports success exactly when the session call completed without
\* error within the timeout, in which case the remote endpoint has the
\* message; a call that timed out or raised is reported as failure, and a
\* delivery that happens after the timeout does not change the report.
C14_SuccessOnlyWhenCompletedInTime ==
    /\ [][(pc["sender"] = "send" /\ pc'["sender"] # "send")
            => (send_returns(sendRes') <=>
                  /\ sendRes' \notin {"error", "timeout"}
                  /\ worker' = "idle"
                  /\ delivered' = Append(delivered, [msg |-> msg, via |-> via(msg)]))]_vars
    /\ [][(pc["sender"] = "shutdown" /\ delivered' # delivered)
            => (sendRes' = "timeout" /\ ~send_returns(sendRes'))]_vars

\* the one message the Sender has taken timed out, was reported as failure,
\* and reached the remote endpoint while the executor was shut down
C14_Witness ==
    /\ pc["sender"] = "loop"
    /\ sendRes = "timeout"
    /\ ~send_returns(sendRes)
    /\ msg = NoMsg
    /\ Cardinality(enqueued) = Len(send_queue) + 1
    /\ Len(delivered) = 1

\* the label the claim gives for (errorFlag, actuatorReady)
StatusTable(errorFlag, actuatorReady) ==
    CASE errorFlag -> "Error"
      [] ~errorFlag /\ ~actuatorReady -> "AwaitingSlave"
      [] ~errorFlag /\ actuatorReady -> "Ready"

\* C15: status() is a pure function of (errorFlag, actuatorReady) with the
\* priority Error > AwaitingActuator > Ready, and calling it changes no
\* state: in every state it yields the label of the table, and the heartbeat
\* step that calls it puts a message with that label and leaves both flags
\* as they were.
C15_StatusPriority ==
    /\ [](status = StatusTable(ERROR_STATE, SLAVE_READY_STATE))
    /\ [][(variant = "thread" /\ Count("heartbeat")' > Count("heartbeat"))
            => /\ UNCHANGED <<SLAVE_READY_STATE, ERROR_STATE>>
               /\ \A m \in enqueued' \ enqueued :
                     m.body = StatusTable(ERROR_STATE, SLAVE_READY_STATE)]_vars

\* a heartbeat was put while the error flag was set and the actuator was not
\* ready: the case in which the priority decides
C15_Witness ==
    /\ variant = "thread"
    /\ ERROR_STATE /\ ~SLAVE_READY_STATE
    /\ \E m \in enqueued : m.src = "heartbeat" /\ m.body = "Error"

\* the restart thread k has written the readiness flag (it is past the
\* write that precedes time.sleep(delay_sec))
FlagWritten(k) ==
    /\ threads[k].kind = "restart"
    /\ \/ threads[k].pc \in {"sleep", "cycle", "done"}
       \/ threads[k].pc = "dead" /\ threads[k].delay = "number"

\* the actuator is marked not ready: SLAVE_READY_STATE is False in the
\* thread program, LED_USED is True in the simple program
NotReady == IF variant = "thread" THEN ~SLAVE_READY_STATE ELSE LED_USED

\* C16: for a restart command the dispatcher's response is sent before
\* readiness changes: whenever the spawned restart task has written
\* actuatorReady=false, the response to its command has been sent.
C16_ResponseBeforeReadinessChange ==
    \A k \in 1..Len(threads) :
       FlagWritten(k) => ResponseCount(threads[k].token) >= 1

\* C17: a restart command marks the actuator not ready before its delay
\* elapses and before its power-cycle starts, and the actuator stays marked
\* not ready for as long as that command's power-cycle is running.
C17_NotReadyWhileRestarting ==
    \A k \in 1..Len(threads) :
       (threads[k].kind = "restart" /\ threads[k].pc \in {"sleep", "cycle"})
          => NotReady

\* a restart command was handled and its task has marked the actuator not
\* ready
RestartHandled == \E k \in 1..Len(threads) : FlagWritten(k)

\* C18: after a restart command was handled and has marked the actuator not
\* ready, the actuator is eventually marked ready again, whatever the
\* outcome of the power-cycle.
C18_EventuallyReadyAgain ==
    RestartHandled ~> ~NotReady

\* the worker tasks main has started: the simple program has no sensor task
StartedTasks ==
    IF pc["sender"] = "idle" THEN {}
    ELSE IF variant = "thread"
      THEN {"sender", "sensor", "heartbeat", "command_processor"}
      ELSE {"sender", "heartbeat", "command_processor"}

\* C19: after the running flag is cleared, every task main started leaves
\* its loop (a task that an exception has ended counts as gone), also a
\* Sender waiting on an empty outbound queue and a dispatcher waiting on an
\* empty command queue.
C19_TasksExitAfterClear ==
    (cleared_at > 0) ~> (\A t \in StartedTasks : pc[t] \in {"exit", "dead"})

HandshakeFails(t) ==
    pc[t] = "handshake" /\ pc'[t] # "handshake" /\ ~connected'

\* C21: when connect() fails in the Sender's cycle, the Sender does not go
\* on to send the message it holds: it puts that message back at the tail
\* of the outbound queue and is back at the top of its loop.
C21_ConnectFailureRequeues ==
    [][HandshakeFails("sender")
         => /\ pc'["sender"] = "loop"
            /\ send_queue' = Append(send_queue, msg)
            /\ delivered' = delivered]_vars

\* C22: in every Sender cycle connect() and send() come only after the
\* network check has answered true in that cycle (the Sender reaches its
\* connect only from a check that found the network up, and its handshake
\* and send only from there), and while the check answers false the Sender
\* keeps polling and keeps the message it holds.
C22_NetworkCheckedBeforeConnect ==
    /\ [][(pc'["sender"] = "connect" /\ pc["sender"] # "connect")
            => pc["sender"] = "net" /\ netUp]_vars
    /\ [][(pc'["sender"] \in {"handshake", "send"} /\ pc["sender"] # pc'["sender"])
            => pc["sender"] \in {"connect", "handshake"}]_vars
    /\ [][pc["sender"] = "net"
            => /\ pc'["sender"] \in {"net", "connect"}
               /\ msg' = msg
               /\ delivered' = delivered]_vars

\* C23: steady-state failures never terminate the Sender: while the running
\* flag is set, no network-unreachable answer, connect failure, send timeout
\* or send error has ended the Sender task.
C23_SenderSurvivesFailures ==
    running => pc["sender"] # "dead"

\* C24: start-up failures are fatal: when the network is not reachable at
\* start-up, or main's first handshake fails, main ends there, and no
\* producer, Sender or dispatcher task is started by a main that has ended.
C24_StartupFailureFatal ==
    /\ [][(pc["main"] = "net" /\ ~netUp /\ pc'["main"] # "net")
            => pc'["main"] \in {"exit", "dead"}]_vars
    /\ [][HandshakeFails("main") => pc'["main"] \in {"exit", "dead"}]_vars
    /\ [](pc["main"] = "dead" => \A t \in Tasks \ {"main"} : pc[t] = "idle")

\* producer t is in its loop with the running flag set and its interval has
\* passed since its last message
Due(t, interval) ==
    running /\ pc[t] = "loop" /\ now - last_time[t] >= interval

\* C25: producers never block on network or session state: whenever the
\* running flag is set and a producer's interval has passed, its enqueue
\* step can be taken, whatever the connection state, the reachability of the
\* network, the length of the queue and the position of the Sender; and the
\* step appends the message without touching the Sender or the session.
C25_ProducersNeverBlock ==
    /\ [](Due("sensor", TelemetryInterval) => ENABLED sensor_task)
    /\ [](Due("heartbeat", HeartbeatInterval) => ENABLED heartbeat_task)
    /\ [][(last_time' # last_time)
            => /\ Len(send_queue') = Len(send_queue) + 1
               /\ SubSeq(send_queue', 1, Len(send_queue)) = send_queue
               /\ UNCHANGED <<msg, sendRes, worker, connected, netUp,
                              client_lock, pc>>]_vars

\* the heartbeat has put its second message behind two that still wait,
\* while the network is down, the session is not connected and the Sender
\* is polling the network with a message in hand
C25_Witness ==
    /\ running
    /\ ~netUp /\ ~connected
    /\ pc["sender"] = "net"
    /\ Len(send_queue) >= 3
    /\ send_queue[Len(send_queue)].src = "heartbeat"
    /\ send_queue[Len(send_queue)].n = 2

\* C26: the connection state is mutated only while the client lock is held
\* by the task that mutates it: the handshake of connect() is made by the
\* lock holder, and so is the disconnect that main makes at shutdown.
C26_MutatedUnderLock ==
    [][/\ (handshakes' # handshakes)
            => \E t \in Tasks : client_lock = t /\ pc[t] = "handshake"
       /\ (disconnects' # disconnects) => client_lock = "main"]_vars

\* C27: a message is consumed exactly once successfully: a message that has
\* reached the remote endpoint (a send that returned success, and also one
\* that completed after its timeout) is not in the outbound queue again, is
\* held by the Sender only until that send returns, and is never delivered a
\* second time.
C27_ConsumedOnce ==
    \A m \in enqueued :
       Delivered(m) =>
          /\ DeliveryCount(m) = 1
          /\ ~InQueue(m)
          /\ msg = m => pc["sender"] = "shutdown"

\* two sends have returned success and the Sender is at its third send
C27_Witness ==
    /\ clean
    /\ Len(delivered) = 2
    /\ pc["sender"] = "send"
    /\ sendRes = "ok"

\* some restart thread is in its delay or in its power-cycle
RestartInProgress ==
    \E k \in 1..Len(threads) :
       threads[k].kind = "restart" /\ threads[k].pc \in {"sleep", "cycle"}

\* the dispatcher has a step to take unless it waits on an empty queue
DispatcherHasWork ==
    \/ pc["command_processor"] \in {"loop", "route", "respond"}
    \/ pc["command_processor"] = "get" /\ command_queue # <<>>

\* C28: a restart command does not block the dispatcher: while a restart
\* thread is in its delay or its power-cycle, the dispatcher can take its
\* next step whenever it has one: take a further request, route it and send
\* its response.
C28_RestartDoesNotBlockDispatcher ==
    (RestartInProgress /\ DispatcherHasWork) => ENABLED command_processor_task

\* the first request was a restart whose power-cycle is still running, and
\* the second request has been consumed and answered meanwhile
C28_Witness ==
    /\ Len(threads) >= 1
    /\ threads[1].kind = "restart" /\ threads[1].token = 1
    /\ threads[1].pc = "cycle"
    /\ Len(responses) = 2
    /\ responses[2].token = 2 /\ responses[2].sent
    /\ pc["command_processor"] \in {"loop", "get"}

\* C29: shutdown does not interrupt an in-flight send. The step that clears
\* the running flag leaves the Sender, its message and the pending send as
\* they are; the Sender leaves send_with_timeout only with an outcome of the
\* send (completed, failed or timed out); it exits only at its loop check,
\* having read the cleared flag; and a Sender that was inside a send when
\* the flag was cleared is found afterwards only in that send, behind it
\* with its outcome, or gone through the loop check.
C29_ClearDoesNotInterruptSend ==
    /\ [][(running /\ ~running')
            => UNCHANGED <<pc["sender"], msg, sendRes, worker, send_queue,
                           delivered>>]_vars
    /\ [][(pc["sender"] = "send" /\ pc'["sender"] # "send")
            => /\ pc'["sender"] = "shutdown"
               /\ sendRes' \in {"ok", "error", "timeout"}]_vars
    /\ [][(pc["sender"] # "exit" /\ pc'["sender"] = "exit")
            => pc["sender"] = "loop" /\ ~running]_vars
    /\ [](send_at_clear =>
            /\ pc["sender"] \in {"send", "shutdown", "loop", "exit"}
            /\ pc["sender"] = "exit" => msg = NoMsg /\ worker = "idle")

\* the send that was in flight when the flag was cleared completed
\* afterwards, and the Sender then left its loop at the next check
C29_Witness ==
    /\ send_at_clear
    /\ ~running
    /\ sendRes = "ok"
    /\ Len(delivered) >= 1
    /\ pc["sender"] = "exit"

\* C30: the Sender routes each message by its kind: what the remote endpoint
\* received as telemetry came through the session's send_message, what it
\* received as a property update came through patch_twin_reported_properties,
\* never the other way round, and one send makes one session call: a step
\* adds at most one delivery.
C30_RoutedByKind ==
    /\ [](\A i \in 1..Len(delivered) :
            /\ delivered[i].msg.type \in {"telemetry", "propertyUpdate"}
            /\ delivered[i].msg.type = "telemetry"
                  => delivered[i].via = "send_message"
            /\ delivered[i].msg.type = "propertyUpdate"
                  => delivered[i].via = "patch_twin_reported_properties")
    /\ [][Len(delivered') <= Len(delivered) + 1]_vars

\* main's property update and a producer's telemetry message have both
\* been delivered
C30_Witness ==
    /\ \E i \in 1..Len(delivered) :
          delivered[i].msg.type = "propertyUpdate" /\ delivered[i].msg.src = "main"
    /\ \E i \in 1..Len(delivered) :
          delivered[i].msg.type = "telemetry" /\ delivered[i].msg.src = "heartbeat"

\* the heartbeats put by the step being taken
NewHeartbeats == {m \in enqueued' \ enqueued : m.src = "heartbeat"}

\* C31: each heartbeat carries the label status() yields for the readiness
\* flags at the moment of its tick: a heartbeat put while the error flag is
\* clear and the actuator is not ready carries AwaitingSlave, and one put
\* while the error flag is clear and the actuator is ready (readiness was
\* restored by a finished restart) carries Ready.
C31_HeartbeatCarriesCurrentStatus ==
    [][variant = "thread" =>
         \A m \in NewHeartbeats :
            /\ (~ERROR_STATE /\ ~SLAVE_READY_STATE) => m.body = "AwaitingSlave"
            /\ (~ERROR_STATE /\ SLAVE_READY_STATE) => m.body = "Ready"
            /\ m.body = status]_vars

\* a first heartbeat was put before the restart and carries AwaitingSlave,
\* the restart thread has finished and restored readiness, and a second
\* heartbeat put after that carries Ready
C31_Witness ==
    /\ variant = "thread"
    /\ SLAVE_READY_STATE
    /\ \E k \in 1..Len(threads) : threads[k].kind = "restart" /\ threads[k].pc = "done"
    /\ \E m1, m2 \in enqueued :
          /\ m1.src = "heartbeat" /\ m1.n = 1 /\ m1.body = "AwaitingSlave"
          /\ m2.src = "heartbeat" /\ m2.n = 2 /\ m2.body = "Ready"

\* the producers and the interval each is configured with
Producers == {"sensor", "heartbeat"}
IntervalOf(t) == IF t = "sensor" THEN TelemetryInterval ELSE HeartbeatInterval

\* C32: a producer puts a message only when at least its interval has
\* elapsed since its previous put, whose time last_time holds (0 before the
\* first put, so that the first pass puts at once): a step puts at most one
\* message of a producer, it does so at a time at least the interval after
\* the previous put, and it records that time; so two consecutive puts of a
\* producer are never closer than the interval.
C32_PutsAtLeastIntervalApart ==
    /\ [](\A t \in Producers :
            /\ Count(t) = 0 <=> last_time[t] = 0
            /\ (Count(t) = 0 /\ pc[t] = "loop" /\ running) => Due(t, IntervalOf(t)))
    /\ [][\A t \in Producers :
            /\ Count(t)' \in {Count(t), Count(t) + 1}
            /\ last_time'[t] # last_time[t] <=> Count(t)' = Count(t) + 1
            /\ Count(t)' = Count(t) + 1 =>
                  /\ now - last_time[t] >= IntervalOf(t)
                  /\ last_time'[t] = now
                  /\ last_time'[t] >= last_time[t] + IntervalOf(t)]_vars

\* both producers have put twice: the heartbeat exactly one interval after
\* its first put, the sensor later than one interval after its first put
C32_Witness ==
    /\ variant = "thread"
    /\ Count("heartbeat") = 2
    /\ last_time["heartbeat"] = StartTime + HeartbeatInterval
    /\ Count("sensor") = 2
    /\ last_time["sensor"] > StartTime + TelemetryInterval

\* C33: commands pass from the session callback to the dispatcher through
\* the command queue with a single reader. The remote endpoint numbers the
\* requests in arrival order; every request the callback delivered is in
\* exactly one place, waiting in the queue or consumed by the dispatcher,
\* in arrival order; the dispatcher holds at most one request, the last one
\* it consumed, and takes the next only after it handed over the response
\* to the one before; and the responses are handed over in arrival order.
C33_SingleReaderInOrder ==
    /\ Len(received) + Len(command_queue) = nextToken - 1
    /\ \A i \in 1..Len(received) : received[i].token = i
    /\ \A i \in 1..Len(command_queue) :
          command_queue[i].token = Len(received) + i
    /\ Len(received) - Len(responses) = IF Dispatching THEN 1 ELSE 0
    /\ Dispatching => cmd_request = received[Len(received)]
    /\ ~Dispatching => cmd_request = NoCmd
    /\ \A j \in 1..Len(responses) : responses[j].token = j

\* the second request arrived while the first was being handled; the first
\* was answered, and the dispatcher now holds the second
C33_Witness ==
    /\ nextToken = 3
    /\ command_queue = <<>>
    /\ Len(responses) = 1 /\ responses[1].token = 1 /\ responses[1].sent
    /\ pc["command_processor"] = "respond"
    /\ cmd_request.token = 2

\* a power-cycle of the actuator is running in some restart thread
PowerCycleInProgress ==
    \E k \in 1..Len(threads) :
       threads[k].kind = "restart" /\ threads[k].pc = "cycle"

\* C34: with restart commands whose restart threads overlap, the actuator
\* is marked ready only when no power-cycle is in progress: a thread that
\* finishes first does not mark it ready while another thread's power-cycle
\* is still running.
C34_ReadyOnlyWhenNoPowerCycle ==
    PowerCycleInProgress => NotReady

\* the session's response call raised for some request
ResponseFailed == \E j \in 1..Len(responses) : ~responses[j].sent

\* C35: the dispatcher stays alive when sending a response fails: after the
\* session's response call raised for a request, the dispatcher thread has
\* not ended, so that it can consume and answer the requests that follow.
C35_DispatcherSurvivesResponseFailure ==
    ResponseFailed => pc["command_processor"] # "dead"

\* the dispatcher has handled a Stop command: stop_cmd started its thread
StopHandled == \E k \in 1..Len(threads) : threads[k].kind = "stop"

\* the process has shut down: RUNNING is false, main has left its loop and
\* returned, the running flag is cleared and the session is disconnected
ShutDown ==
    /\ ~RUNNING
    /\ ~running
    /\ pc["main"] = "exit"
    /\ disconnects = 1
    /\ ~connected

\* the shutdown half of C36: a handled Stop leads to the shut-down process
StopShutsDown == StopHandled ~> ShutDown

\* C36: a Stop command shuts the process down, and the response to the Stop
\* command is sent before the session is disconnected: once main has
\* disconnected the session after a handled Stop, the response to the first
\* Stop command has been sent.
C36_StopResponseBeforeDisconnect ==
    (StopHandled /\ disconnects > 0) =>
       \E j \in 1..Len(responses) :
          responses[j].token = threads[1].token /\ responses[j].sent

\* the single-threaded main is between two passes of its loop: the retry
\* pass of the last one is through and the next message is not yet created
BetweenPasses ==
    /\ variant = "single"
    /\ pc["main"] \in {"health_net", "renet", "health_client", "create",
                       "finally", "exit"}

\* the messages created so far for which no send has returned True
NotYetSent == {m \in 1..created : m \notin sent}

\* C37: in the single-threaded loop a message whose send failed is kept in
\* the unsent list until a later send of it succeeds: after every pass of
\* the loop the list holds exactly the messages not yet sent successfully,
\* each once and in the order of their creation, and a message leaves the
\* list only in a step after which a send of it has succeeded.
C37_UnsentKeptUntilSent ==
    /\ [](BetweenPasses =>
            /\ {unsent_queue[i] : i \in 1..Len(unsent_queue)} = NotYetSent
            /\ \A i, j \in 1..Len(unsent_queue) :
                  i < j => unsent_queue[i] < unsent_queue[j])
    /\ [][\A i \in 1..Len(unsent_queue) :
            (\A j \in 1..Len(unsent_queue') : unsent_queue'[j] # unsent_queue[i])
               => unsent_queue[i] \in sent']_vars

\* after the second pass: message 1 failed in both passes and is still in
\* the list, message 2 failed when first sent and left the list when its
\* retry succeeded
C37_Witness ==
    /\ BetweenPasses
    /\ created = 2
    /\ unsent_queue = <<1>>
    /\ resent = {2}

\* the single-threaded main is inside connect_to_network or inside
\* connect_to_iot_hub, and the step being taken is one of its own
InConnectToNetwork == variant = "single" /\ pc["main"] \in {"net", "renet"}
InConnectToIotHub == variant = "single" /\ pc["main"] = "hub"
RetryStep == pc' # pc \/ attempt' # attempt
LastReturn == returned'[Len(returned')]

\* C38: the bounded retries make at most max_retries attempts: a call never
\* makes more than max_retries attempts; it returned True only after at
\* least one attempt and False only after exactly max_retries attempts; the
\* attempt that succeeds (the probe finds the network, client.connect()
\* returns) makes the call return True in that very step, with that attempt
\* as its last one; an attempt that fails returns nothing; and False is
\* returned only when max_retries attempts have been made.
C38_BoundedRetries ==
    /\ [](attempt \in 0..MaxRetries)
    /\ [](\A i \in 1..Len(returned) :
            /\ returned[i].attempts \in 0..MaxRetries
            /\ returned[i].value => returned[i].attempts >= 1
            /\ ~returned[i].value => returned[i].attempts = MaxRetries)
    /\ [][/\ (InConnectToNetwork /\ RetryStep /\ attempt < MaxRetries /\ netUp)
             => /\ Len(returned') = Len(returned) + 1
                /\ LastReturn = [fn |-> "connect_to_network", value |-> TRUE,
                                 attempts |-> attempt + 1]
          /\ (InConnectToIotHub /\ handshakes' = handshakes + 1 /\ connected')
             => /\ Len(returned') = Len(returned) + 1
                /\ LastReturn = [fn |-> "connect_to_iot_hub", value |-> TRUE,
                                 attempts |-> attempt + 1]
          /\ attempt' = attempt + 1 => UNCHANGED <<returned, pc>>
          /\ (Len(returned') > Len(returned) /\ ~LastReturn.value)
             => attempt = MaxRetries /\ UNCHANGED handshakes]_vars

\* connect_to_network returned True at its second attempt, and
\* connect_to_iot_hub then returned False after max_retries failed calls of
\* client.connect(), upon which main returned
C38_Witness ==
    /\ returned = <<[fn |-> "connect_to_network", value |-> TRUE, attempts |-> 2],
                    [fn |-> "connect_to_iot_hub", value |-> FALSE,
                     attempts |-> MaxRetries]>>
    /\ handshakes = MaxRetries
    /\ pc["main"] = "exit"

====
